---- MODULE Spec2Model ----
(***************************************************************************)
(* A model of images/capi/hack/image-build-ova.py: the program that turns  *)
(* the artifacts of a Packer build (packer-manifest.json and a .vmdk disk) *)
(* into <name>.ovf, <name>.mf, <name>.ova and <name>.ova.sha256.           *)
(*                                                                         *)
(* File names and file contents are strings.  Python dicts are functions   *)
(* whose domain is the set of keys present; Python lists are sequences.    *)
(* One action models one statement group of main(); a Python exception     *)
(* that nothing catches ends the run with pc = "failed" and exit code 1.   *)
(***************************************************************************)
EXTENDS Integers, Sequences, FiniteSets, TLC

(***************************************************************************)
(* Bounds of the model.                                                    *)
(***************************************************************************)
\* How many times the program is invoked, one after the other, in the same
\* build directory.
MaxRuns == 2

\* How long the lists of paths handed to create_ova_manifest are, when it is
\* tried on lists other than the one main() passes.
MaxPaths == 2

\* The longest file, in bytes, and the largest chunk, in bytes, the read loop
\* of sha256() is tried on besides the files and the chunk of the program.
MaxData  == 6
MaxChunk == 3

(***************************************************************************)
(* String helpers: the str methods the program uses.                       *)
(***************************************************************************)
CharAt(s, i) == SubSeq(s, i, i)

\* The byte value of each character a modelled file or name may hold (ASCII).
OrdTable ==
    ("\t" :> 9) @@ ("\n" :> 10) @@ (" " :> 32) @@ ("!" :> 33) @@ ("\"" :> 34) @@ ("#" :> 35)
    @@ ("$" :> 36) @@ ("%" :> 37) @@ ("&" :> 38) @@ ("'" :> 39) @@ ("(" :> 40) @@ (")" :> 41)
    @@ ("*" :> 42) @@ ("+" :> 43) @@ ("," :> 44) @@ ("-" :> 45) @@ ("." :> 46) @@ ("/" :> 47)
    @@ ("0" :> 48) @@ ("1" :> 49) @@ ("2" :> 50) @@ ("3" :> 51) @@ ("4" :> 52) @@ ("5" :> 53)
    @@ ("6" :> 54) @@ ("7" :> 55) @@ ("8" :> 56) @@ ("9" :> 57) @@ (":" :> 58) @@ (";" :> 59)
    @@ ("<" :> 60) @@ ("=" :> 61) @@ (">" :> 62) @@ ("?" :> 63) @@ ("@" :> 64) @@ ("A" :> 65)
    @@ ("B" :> 66) @@ ("C" :> 67) @@ ("D" :> 68) @@ ("E" :> 69) @@ ("F" :> 70) @@ ("G" :> 71)
    @@ ("H" :> 72) @@ ("I" :> 73) @@ ("J" :> 74) @@ ("K" :> 75) @@ ("L" :> 76) @@ ("M" :> 77)
    @@ ("N" :> 78) @@ ("O" :> 79) @@ ("P" :> 80) @@ ("Q" :> 81) @@ ("R" :> 82) @@ ("S" :> 83)
    @@ ("T" :> 84) @@ ("U" :> 85) @@ ("V" :> 86) @@ ("W" :> 87) @@ ("X" :> 88) @@ ("Y" :> 89)
    @@ ("Z" :> 90) @@ ("[" :> 91) @@ ("]" :> 93) @@ ("^" :> 94) @@ ("_" :> 95) @@ ("a" :> 97)
    @@ ("b" :> 98) @@ ("c" :> 99) @@ ("d" :> 100) @@ ("e" :> 101) @@ ("f" :> 102) @@ ("g" :> 103)
    @@ ("h" :> 104) @@ ("i" :> 105) @@ ("j" :> 106) @@ ("k" :> 107) @@ ("l" :> 108) @@ ("m" :> 109)
    @@ ("n" :> 110) @@ ("o" :> 111) @@ ("p" :> 112) @@ ("q" :> 113) @@ ("r" :> 114) @@ ("s" :> 115)
    @@ ("t" :> 116) @@ ("u" :> 117) @@ ("v" :> 118) @@ ("w" :> 119) @@ ("x" :> 120) @@ ("y" :> 121)
    @@ ("z" :> 122) @@ ("{" :> 123) @@ ("|" :> 124) @@ ("}" :> 125) @@ ("~" :> 126)

Ord(c) == OrdTable[c]

\* s.endswith(suffix)
endswith(s, suffix) ==
    /\ Len(s) >= Len(suffix)
    /\ SubSeq(s, Len(s) - Len(suffix) + 1, Len(s)) = suffix

\* s.find(sub) + 1: the first position (from 1) where sub occurs in s, 0 if
\* it does not occur.
find(s, sub) ==
    LET hits == {i \in 1..(Len(s) - Len(sub) + 1) : SubSeq(s, i, i + Len(sub) - 1) = sub}
    IN  IF hits = {} THEN 0 ELSE CHOOSE i \in hits : \A j \in hits : i <= j

\* s.replace(old, new, 1): only the first occurrence is replaced.
replace_first(s, old, new) ==
    LET p == find(s, old)
    IN  IF p = 0 THEN s
        ELSE SubSeq(s, 1, p - 1) \o new \o SubSeq(s, p + Len(old), Len(s))

\* str(n) for a natural number.
RECURSIVE str(_)
str(n) ==
    IF n < 10 THEN CharAt("0123456789", n + 1)
    ELSE str(n \div 10) \o CharAt("0123456789", (n % 10) + 1)

(***************************************************************************)
(* Dict helpers.                                                           *)
(***************************************************************************)
EmptyDict == [k \in {} |-> ""]

\* d[k] = v
Put(d, k, v) == [x \in DOMAIN d \cup {k} |-> IF x = k THEN v ELSE d[x]]

\* d without the key k (a manifest that lacks a key).
Without(d, k) == [x \in DOMAIN d \ {k} |-> d[x]]

(***************************************************************************)
(* sha256(path): hashlib.sha256 fed by a chunked read loop.                *)
(* The digest is a 15-bit polynomial hash, written as four hex digits: it  *)
(* is a function of the bytes fed and of their order, like the real one.   *)
(***************************************************************************)
\* f.read(65536): the size of one chunk.
BUFSIZE == 65536

\* hashlib.sha256(): the state before any byte is fed.
sha256_new == 5381

\* What feeding `data` does to a state m is m * mult + add (mod 32749), here
\* <<mult, add>>: one byte c turns m into m * 33 + c, and feeding l and then
\* r composes the two effects.
compose(l, r) == <<(l[1] * r[1]) % 32749, (l[2] * r[1] + r[2]) % 32749>>

RECURSIVE feed(_)
feed(data) ==
    IF Len(data) = 0 THEN <<1, 0>>
    ELSE IF Len(data) = 1 THEN <<33, Ord(data)>>
    ELSE compose(feed(SubSeq(data, 1, Len(data) \div 2)),
                 feed(SubSeq(data, Len(data) \div 2 + 1, Len(data))))

\* m.update(data): feeds the bytes of data, in order.
update(m, data) == LET e == feed(data) IN (m * e[1] + e[2]) % 32749

\* m.hexdigest()
hexdigest(m) ==
    LET hex(d) == CharAt("0123456789abcdef", d + 1)
    IN  hex((m \div 4096) % 16) \o hex((m \div 256) % 16) \o hex((m \div 16) % 16) \o hex(m % 16)

\* A loop that takes a short read for the end of the file and leaves it
\* without feeding the chunk: `if len(data) < 65536: break`.
RECURSIVE read_loop_stop_on_short(_, _, _, _)
read_loop_stop_on_short(bytes, pos, n, m) ==
    LET last == IF pos + n - 1 < Len(bytes) THEN pos + n - 1 ELSE Len(bytes)
        data == SubSeq(bytes, pos, last)
    IN  IF Len(data) < n THEN m
        ELSE read_loop_stop_on_short(bytes, pos + Len(data), n, update(m, data))

\* The loop of sha256(): read at most n bytes from position pos; stop at the
\* first empty read, otherwise feed the chunk and go on after it.
RECURSIVE read_loop(_, _, _, _)
read_loop(bytes, pos, n, m) ==
    LET last == IF pos + n - 1 < Len(bytes) THEN pos + n - 1 ELSE Len(bytes)
        data == SubSeq(bytes, pos, last)
    IN  IF Len(data) = 0 THEN m
        ELSE read_loop(bytes, pos + Len(data), n, update(m, data))

\* sha256(path) on a file whose bytes are `bytes`.
sha256(bytes) ==
    CHOOSE h \in {hexdigest(m) : m \in {read_loop(bytes, 1, BUFSIZE, sha256_new)}} : TRUE

(***************************************************************************)
(* tarfile, mode 'w|': an uncompressed stream of members, each a header    *)
(* (name and size, each ended by a tab) followed by the member's bytes;    *)
(* closing the stream writes the end-of-archive marker (an empty name).    *)
(***************************************************************************)
tar_header(name, size) == name \o "\t" \o str(size) \o "\t"

\* tar.add(path): one member, named path, with the file's current bytes.
tar_add(archive, path, bytes) == archive \o tar_header(path, Len(bytes)) \o bytes

\* Leaving the `with tarfile.open(...)` block without an exception.
tar_close(archive) == archive \o "\t"

(***************************************************************************)
(* string.Template                                                         *)
(***************************************************************************)
\* _OVF_TEMPLATE as Template's pattern splits it: literal text, "${name}"
\* placeholders and the escape "$$", in the order of the source.  Every line
\* of the source that holds a placeholder or an escape is here; the XML and
\* the licence text between them are cut.
_OVF_TEMPLATE ==
    << "<File ovf:id=\"file1\" ovf:href=\"", "${BUILD_NAME}", ".ova.vmdk\" ovf:size=\"",
       "${STREAM_DISK_SIZE}", "\"/>\n",
       "<Disk ovf:populatedSize=\"", "${POPULATED_DISK_SIZE}", "\"/>\n",
       "<VirtualSystem ovf:id=\"", "${ARTIFACT_ID}", "\">\n",
       "<Name>", "${ARTIFACT_ID}", "</Name>\n",
       "<Annotation>Cluster API vSphere image - ", "${OS_NAME}", " and Kubernetes ",
       "${KUBERNETES_SEMVER}", " - https://github.com</Annotation>\n",
       "EXCEED THE GREATER OF THE LICENSE FEES OR ", "$$", "5000.\n",
       "<Product>", "${OS_NAME}", " and Kubernetes ", "${KUBERNETES_SEMVER}", "</Product>\n",
       "<Version>kube-", "${KUBERNETES_SEMVER}", "</Version>\n",
       "<FullVersion>kube-", "${KUBERNETES_SEMVER}", "</FullVersion>\n",
       "<Property ovf:value=\"", "${BUILD_TIMESTAMP}", "\" ovf:key=\"BUILD_TIMESTAMP\"/>\n",
       "<Property ovf:value=\"", "${BUILD_DATE}", "\" ovf:key=\"BUILD_DATE\"/>\n",
       "<Property ovf:value=\"", "${CAPI_VERSION}", "\" ovf:key=\"CAPI_VERSION\"/>\n",
       "<Property ovf:value=\"", "${CNI_VERSION}", "\" ovf:key=\"CNI_VERSION\"/>\n",
       "<Property ovf:value=\"", "${ISO_URL}", "\" ovf:key=\"ISO_URL\"/>\n",
       "<Property ovf:value=\"", "${ISO_CHECKSUM}", "\" ovf:key=\"ISO_CHECKSUM\"/>\n",
       "<Property ovf:value=\"", "${ISO_CHECKSUM_TYPE}", "\" ovf:key=\"ISO_CHECKSUM_TYPE\"/>\n",
       "<Property ovf:value=\"", "${KUBERNETES_SEMVER}", "\" ovf:key=\"KUBERNETES_SEMVER\"/>\n",
       "<Property ovf:value=\"", "${KUBERNETES_SOURCE_TYPE}",
       "\" ovf:key=\"KUBERNETES_SOURCE_TYPE\"/>\n" >>

is_placeholder(tok) == Len(tok) > 3 /\ SubSeq(tok, 1, 2) = "${" /\ endswith(tok, "}")

\* The name inside "${name}".
placeholder_key(tok) == SubSeq(tok, 3, Len(tok) - 1)

\* The names of the ${...} placeholders of a template.
placeholders(tpl) ==
    {placeholder_key(tpl[k]) : k \in {j \in 1..Len(tpl) : is_placeholder(tpl[j])}}

\* Template(tpl).substitute(mapping), for a mapping that has every
\* placeholder: "$$" becomes "$", "${key}" becomes mapping[key], and the
\* rest is copied.
RECURSIVE substitute(_, _)
substitute(tpl, mapping) ==
    IF Len(tpl) = 0 THEN ""
    ELSE (IF is_placeholder(Head(tpl)) THEN mapping[placeholder_key(Head(tpl))]
          ELSE IF Head(tpl) = "$$" THEN "$"
          ELSE Head(tpl))
         \o substitute(Tail(tpl), mapping)

(***************************************************************************)
(* The inputs: what packer-manifest.json may hold when the program starts. *)
(***************************************************************************)
CustomData ==
    [ build_date             |-> "2021-02-18",
      build_timestamp        |-> "1613",
      capi_version           |-> "v1alpha3",
      kubernetes_cni_semver  |-> "0.8.7",
      os_name                |-> "Ubuntu",
      iso_checksum           |-> "ab12",
      iso_checksum_type      |-> "sha256",
      iso_url                |-> "http://iso",
      kubernetes_semver      |-> "1.20.4",
      kubernetes_source_type |-> "pkg" ]

FileEntry(name, size) == [name |-> name, size |-> size]

Build(name, files) ==
    [ name        |-> name,
      artifact_id |-> "vm-" \o name,
      custom_data |-> CustomData,
      files       |-> files ]

Ubuntu == Build("ubuntu", <<FileEntry("ubuntu.vmdk", 20)>>)

\* A second build entry, and another one in its place.
Centos == Build("centos", <<FileEntry("centos.vmdk", 30)>>)
Photon == Build("photon", <<FileEntry("photon.vmx", 1), FileEntry("photon.vmdk", 40)>>)

\* The keys of the manifest that feed a placeholder of the descriptor: keys
\* of the build, keys of its custom_data, and the key of the disk entry.
BuildKeys == {"name", "artifact_id", "custom_data"}
DiskKeys  == {"size"}

\* The first build with one of those keys left out.
UbuntuWithout(k) ==
    IF k \in BuildKeys THEN Without(Ubuntu, k)
    ELSE IF k \in DiskKeys
         THEN [Ubuntu EXCEPT !.files = <<Without(FileEntry("ubuntu.vmdk", 20), k)>>]
         ELSE [Ubuntu EXCEPT !.custom_data = Without(CustomData, k)]

MetadataKeys == BuildKeys \cup DOMAIN CustomData \cup DiskKeys

Json(data) == [kind |-> "json", data |-> data]

\* A manifest that json.load accepts.
GoodManifests ==
    { Json([builds |-> <<Ubuntu>>]),
      Json([builds |-> <<Ubuntu, Centos>>]),
      Json([builds |-> <<Ubuntu, Photon>>]),
      Json([builds |-> <<Build("ubuntu", <<FileEntry("ubuntu.vmdk", 20),
                                           FileEntry("ubuntu-1.vmdk", 10)>>)>>]),
      Json([builds |-> <<Build("ubuntu", <<FileEntry("ubuntu.vmx", 1),
                                           FileEntry("ubuntu.vmdk", 20)>>)>>]),
      \* the disk that is not named after the build comes first
      Json([builds |-> <<Build("ubuntu", <<FileEntry("ubuntu-1.vmdk", 10),
                                           FileEntry("ubuntu.vmdk", 20)>>)>>]),
      \* the output directory held a converted disk when Packer listed it
      Json([builds |-> <<Build("ubuntu", <<FileEntry("ubuntu.vmdk", 20),
                                           FileEntry("ubuntu.ova.vmdk", 25)>>)>>]) }

\* A manifest the run cannot complete on.
BadManifests ==
    { [kind |-> "missing",   data |-> EmptyDict],
      [kind |-> "malformed", data |-> EmptyDict],
      Json([last_run_uuid |-> "0"]),
      Json([builds |-> <<>>]),
      Json([builds |-> <<Build("ubuntu", <<FileEntry("ubuntu.vmx", 1)>>)>>]),
      Json([builds |-> <<Without(Ubuntu, "files")>>]) }
    \cup {Json([builds |-> <<UbuntuWithout(k)>>]) : k \in MetadataKeys}

Manifests == GoodManifests \cup BadManifests

\* What the external tool may write when it succeeds.
StreamOutputs == {"KDMV-stream", "KDMV-stream-optimized"}

\* The build directory before the first run: the disks Packer produced, and
\* possibly a file left at the destination of the conversion.
SourceFiles ==
    [p \in {"ubuntu.vmdk", "ubuntu-1.vmdk", "ubuntu.vmx"} |->
        IF p = "ubuntu.vmx" THEN "vmx" ELSE "KDMV-raw-" \o p]

Leftover == "KDMV-left-by-someone-else"

(***************************************************************************)
(* The state.                                                              *)
(***************************************************************************)
VARIABLES
    fs,          \* the build directory: path |-> bytes, for every regular file
    manifest,    \* packer-manifest.json as json.load finds it
    runs,        \* how many times the program has been started
    pc,          \* where main() is
    exit_code,   \* the exit status of the last run; -1 while main() runs
    error,       \* the exception that ended the run, "" if none
    data,        \* main: data
    build,       \* main: build (its 'files' entries are mutated in place)
    vmdk_files,  \* main: vmdk_files, each entry as its index in build['files']
    i,           \* stream_optimize_vmdk_files: the next entry of inlist
    vmdk,        \* main: vmdk, as its index in build['files']; 0 before line 64
    calls,       \* the invocations of vmware-vdiskmanager by this run
    effects,     \* the files this run removed or wrote, in order
    prev         \* what the last run that exited with 0 was given and did

vars == <<fs, manifest, runs, pc, exit_code, error, data, build, vmdk_files, i,
          vmdk, calls, effects, prev>>

(***************************************************************************)
(* The functions of the program.                                           *)
(***************************************************************************)
\* data['builds'][-1]: the last build in the place of the first.
last_build(d) == d.builds[Len(d.builds)]

\* data['builds'][0]
first_build(d) == d.builds[1]

\* A get_vmdk_files without the test on the name: every entry is returned.
get_vmdk_files_unfiltered(inlist) == [k \in 1..Len(inlist) |-> k]

\* get_vmdk_files(inlist): the entries whose name ends in '.vmdk', in order;
\* the result holds the entries themselves, here their indices in inlist.
get_vmdk_files(inlist) ==
    SelectSeq([k \in 1..Len(inlist) |-> k],
              LAMBDA k : endswith(inlist[k].name, ".vmdk"))

\* stream_optimize_vmdk_files: outfile = infile.replace('.vmdk', '.ova.vmdk', 1)
outfile_of(infile) == replace_first(infile, ".vmdk", ".ova.vmdk")

\* A loop that does not delete what is at the destination.
remove_if_file_never(files, path) == files

\* if os.path.isfile(outfile): os.remove(outfile)
remove_if_file(files, path) == Without(files, path)

\* subprocess.check_call(['vmware-vdiskmanager', '-r', infile, '-t', '5',
\* outfile]): what the tool may do, as the exit status and the directory it
\* leaves.  It can succeed only on a source that exists; it may fail on any
\* input, leaving nothing or a partial file; what it does to a destination
\* that exists is its own business (it refuses it or replaces it).
vdiskmanager(files, infile, outfile) ==
    {[rc |-> 1, fs |-> files], [rc |-> 1, fs |-> Put(files, outfile, "KDMV-")]}
    \cup (IF infile \in DOMAIN files
          THEN {[rc |-> 0, fs |-> Put(files, outfile, out)] : out \in StreamOutputs}
          ELSE {})

\* subprocess.call in the place of check_call: the exit status is dropped.
check_call_ignoring_status(rc) == TRUE

\* check_call: whether the exit status lets the program go on (a status
\* other than 0 raises CalledProcessError).
check_call(rc) == rc = 0

\* The keys main() reads to build the dict it hands to create_ovf.
ovf_data_ok(b, f) ==
    /\ {"name", "artifact_id", "custom_data"} \subseteq DOMAIN b
    /\ { "build_date", "build_timestamp", "capi_version", "kubernetes_cni_semver",
         "os_name", "iso_checksum", "iso_checksum_type", "iso_url",
         "kubernetes_semver", "kubernetes_source_type" } \subseteq DOMAIN b.custom_data
    /\ {"size", "stream_size"} \subseteq DOMAIN f

\* A dict whose KUBERNETES_SEMVER is read from the CNI version key.
ovf_data_cni_as_semver(b, f) ==
    [ BUILD_DATE             |-> b.custom_data.build_date,
      BUILD_NAME             |-> b.name,
      ARTIFACT_ID            |-> b.artifact_id,
      BUILD_TIMESTAMP        |-> b.custom_data.build_timestamp,
      CAPI_VERSION           |-> b.custom_data.capi_version,
      CNI_VERSION            |-> b.custom_data.kubernetes_cni_semver,
      OS_NAME                |-> b.custom_data.os_name,
      ISO_CHECKSUM           |-> b.custom_data.iso_checksum,
      ISO_CHECKSUM_TYPE      |-> b.custom_data.iso_checksum_type,
      ISO_URL                |-> b.custom_data.iso_url,
      KUBERNETES_SEMVER      |-> b.custom_data.kubernetes_cni_semver,
      KUBERNETES_SOURCE_TYPE |-> b.custom_data.kubernetes_source_type,
      POPULATED_DISK_SIZE    |-> str(f.size),
      STREAM_DISK_SIZE       |-> str(f.stream_size) ]

\* A dict that lacks the ISO_URL key.
ovf_data_without_iso_url(b, f) ==
    [ BUILD_DATE             |-> b.custom_data.build_date,
      BUILD_NAME             |-> b.name,
      ARTIFACT_ID            |-> b.artifact_id,
      BUILD_TIMESTAMP        |-> b.custom_data.build_timestamp,
      CAPI_VERSION           |-> b.custom_data.capi_version,
      CNI_VERSION            |-> b.custom_data.kubernetes_cni_semver,
      OS_NAME                |-> b.custom_data.os_name,
      ISO_CHECKSUM           |-> b.custom_data.iso_checksum,
      ISO_CHECKSUM_TYPE      |-> b.custom_data.iso_checksum_type,
      KUBERNETES_SEMVER      |-> b.custom_data.kubernetes_semver,
      KUBERNETES_SOURCE_TYPE |-> b.custom_data.kubernetes_source_type,
      POPULATED_DISK_SIZE    |-> str(f.size),
      STREAM_DISK_SIZE       |-> str(f.stream_size) ]

\* A dict whose STREAM_DISK_SIZE is the size the manifest gives the disk.
ovf_data_stream_size_populated(b, f) ==
    [ BUILD_DATE             |-> b.custom_data.build_date,
      BUILD_NAME             |-> b.name,
      ARTIFACT_ID            |-> b.artifact_id,
      BUILD_TIMESTAMP        |-> b.custom_data.build_timestamp,
      CAPI_VERSION           |-> b.custom_data.capi_version,
      CNI_VERSION            |-> b.custom_data.kubernetes_cni_semver,
      OS_NAME                |-> b.custom_data.os_name,
      ISO_CHECKSUM           |-> b.custom_data.iso_checksum,
      ISO_CHECKSUM_TYPE      |-> b.custom_data.iso_checksum_type,
      ISO_URL                |-> b.custom_data.iso_url,
      KUBERNETES_SEMVER      |-> b.custom_data.kubernetes_semver,
      KUBERNETES_SOURCE_TYPE |-> b.custom_data.kubernetes_source_type,
      POPULATED_DISK_SIZE    |-> str(f.size),
      STREAM_DISK_SIZE       |-> str(f.size) ]

\* The dict main() hands to create_ovf; the two sizes are numbers, which
\* substitute() writes with str().
ovf_data(b, f) ==
    [ BUILD_DATE             |-> b.custom_data.build_date,
      BUILD_NAME             |-> b.name,
      ARTIFACT_ID            |-> b.artifact_id,
      BUILD_TIMESTAMP        |-> b.custom_data.build_timestamp,
      CAPI_VERSION           |-> b.custom_data.capi_version,
      CNI_VERSION            |-> b.custom_data.kubernetes_cni_semver,
      OS_NAME                |-> b.custom_data.os_name,
      ISO_CHECKSUM           |-> b.custom_data.iso_checksum,
      ISO_CHECKSUM_TYPE      |-> b.custom_data.iso_checksum_type,
      ISO_URL                |-> b.custom_data.iso_url,
      KUBERNETES_SEMVER      |-> b.custom_data.kubernetes_semver,
      KUBERNETES_SOURCE_TYPE |-> b.custom_data.kubernetes_source_type,
      POPULATED_DISK_SIZE    |-> str(f.size),
      STREAM_DISK_SIZE       |-> str(f.stream_size) ]

\* The names main() gives its outputs.
ovf_name(b)          == b.name \o ".ovf"

\* A checksum manifest written under a fixed name, not the build's.
ova_manifest_name_fixed(b) == "manifest.mf"

ova_manifest_name(b) == b.name \o ".mf"
ova_name(b)          == b.name \o ".ova"
chksum_name(path)    == path \o ".sha256"

\* A create_ova_manifest that hashes the path string, not the file.
RECURSIVE manifest_lines_of_names(_, _)
manifest_lines_of_names(files, infile_paths) ==
    IF Len(infile_paths) = 0 THEN ""
    ELSE "SHA256(" \o Head(infile_paths) \o ")= " \o sha256(Head(infile_paths)) \o "\n"
             \o manifest_lines_of_names(files, Tail(infile_paths))

\* A create_ova_manifest that opens the file inside the loop: each turn
\* truncates what the turn before wrote.
manifest_lines_last_only(files, infile_paths) ==
    IF Len(infile_paths) = 0 THEN ""
    ELSE "SHA256(" \o infile_paths[Len(infile_paths)] \o ")= "
             \o sha256(files[infile_paths[Len(infile_paths)]]) \o "\n"

\* create_ova_manifest: one line per path, 'SHA256(%s)= %s\n'.
RECURSIVE manifest_lines(_, _)
manifest_lines(files, infile_paths) ==
    IF Len(infile_paths) = 0 THEN ""
    ELSE "SHA256(" \o Head(infile_paths) \o ")= " \o sha256(files[Head(infile_paths)]) \o "\n"
             \o manifest_lines(files, Tail(infile_paths))

\* A create_ova that hashes the archive before the tar stream is closed: the
\* end-of-archive marker is not in what it reads.
ova_checksum_before_close(files, path) ==
    sha256(SubSeq(files[path], 1, Len(files[path]) - 1))

\* create_ova: what is written to the checksum file: the hash of the archive
\* file, read back after it has been closed.
ova_checksum(files, path) == sha256(files[path])

\* A main() that passes the disk before the checksum manifest.
ova_members_disk_second(b, f) == <<ovf_name(b), f.stream_name, ova_manifest_name(b)>>

\* create_ova: the members main() passes, in the order it passes them.
ova_members(b, f) == <<ovf_name(b), ova_manifest_name(b), f.stream_name>>

\* create_ova: the tar stream after tar.add of each path, not yet closed.
RECURSIVE tar_add_all(_, _, _)
tar_add_all(archive, files, infile_paths) ==
    IF Len(infile_paths) = 0 THEN archive
    ELSE tar_add_all(tar_add(archive, Head(infile_paths), files[Head(infile_paths)]),
                     files, Tail(infile_paths))

(***************************************************************************)
(* The actions: main(), top to bottom.                                     *)
(***************************************************************************)
\* An exception that is caught and logged: the program still exits with 0.
raise_swallowed(e) == pc' = "failed" /\ exit_code' = 0 /\ error' = e

\* An exception nothing catches: the interpreter exits with status 1.
raise(e) == pc' = "failed" /\ exit_code' = 1 /\ error' = e

goto(label) == pc' = label /\ UNCHANGED <<exit_code, error>>

Removed(path) == [op |-> "remove", path |-> path]
Wrote(path)   == [op |-> "write", path |-> path]

\* No run has exited with 0 yet.
NoRun == [done |-> FALSE, builds |-> <<>>, calls |-> <<>>, written |-> {},
          ovf |-> "", mf |-> ""]

\* What a run that exited with 0 was given and did: the builds of its
\* manifest, its invocations of the tool, the paths it wrote, and the
\* descriptor and the checksum manifest it left.
Summary ==
    [ done    |-> TRUE,
      builds  |-> manifest.data.builds,
      calls   |-> calls,
      written |-> {effects[k].path : k \in {j \in 1..Len(effects) : effects[j].op = "write"}},
      ovf     |-> fs[ovf_name(build)],
      mf      |-> fs[ova_manifest_name(build)] ]

Init ==
    /\ fs \in {SourceFiles, Put(SourceFiles, "ubuntu.ova.vmdk", Leftover)}
    /\ manifest = [kind |-> "missing", data |-> EmptyDict]
    /\ runs = 0
    /\ pc = "idle"
    /\ exit_code = -1
    /\ error = ""
    /\ data = EmptyDict
    /\ build = EmptyDict
    /\ vmdk_files = <<>>
    /\ i = 1
    /\ vmdk = 0
    /\ calls = <<>>
    /\ effects = <<>>
    /\ prev = NoRun

\* The program is started in the build directory, whose manifest is m.
Start(m) ==
    /\ pc \in {"idle", "done", "failed"}
    /\ runs < MaxRuns
    /\ manifest' = m
    /\ runs' = runs + 1
    /\ pc' = "load"
    /\ exit_code' = -1
    /\ error' = ""
    /\ data' = EmptyDict
    /\ build' = EmptyDict
    /\ vmdk_files' = <<>>
    /\ i' = 1
    /\ vmdk' = 0
    /\ calls' = <<>>
    /\ effects' = <<>>
    /\ prev' = IF pc = "done" THEN Summary ELSE prev
    /\ UNCHANGED fs

\* Lines 46-49: open('packer-manifest.json') and json.load.
LoadManifest ==
    /\ pc = "load"
    /\ IF manifest.kind = "missing"
       THEN raise("FileNotFoundError") /\ UNCHANGED data
       ELSE IF manifest.kind = "malformed"
            THEN raise("JSONDecodeError") /\ UNCHANGED data
            ELSE data' = manifest.data /\ goto("build")
    /\ UNCHANGED <<fs, manifest, runs, build, vmdk_files, i, vmdk, calls, effects, prev>>

\* A main() that reads data.get('builds') and goes on with an empty build
\* when there is none.
GetFirstBuild_default ==
    /\ pc = "build"
    /\ IF "builds" \notin DOMAIN data \/ Len(data.builds) = 0
       THEN build' = EmptyDict /\ goto("files")
       ELSE /\ build' = first_build(data)
            /\ IF /\ "custom_data" \in DOMAIN build'
                  /\ "name" \in DOMAIN build'
                  /\ "kubernetes_semver" \in DOMAIN build'.custom_data
               THEN goto("files")
               ELSE raise("KeyError")
    /\ UNCHANGED <<fs, manifest, runs, data, vmdk_files, i, vmdk, calls, effects, prev>>

\* Lines 51-55: the first build, its custom_data, and the "loaded" message.
GetFirstBuild ==
    /\ pc = "build"
    /\ IF "builds" \notin DOMAIN data
       THEN raise("KeyError") /\ UNCHANGED build
       ELSE IF Len(data.builds) = 0
            THEN raise("IndexError") /\ UNCHANGED build
            ELSE /\ build' = first_build(data)
                 /\ IF /\ "custom_data" \in DOMAIN build'
                       /\ "name" \in DOMAIN build'
                       /\ "kubernetes_semver" \in DOMAIN build'.custom_data
                    THEN goto("files")
                    ELSE raise("KeyError")
    /\ UNCHANGED <<fs, manifest, runs, data, vmdk_files, i, vmdk, calls, effects, prev>>

\* A main() that picks the disk right after listing the disks, without the
\* call of stream_optimize_vmdk_files.
GetVmdkFiles_then_pick ==
    /\ pc = "files"
    /\ IF "files" \notin DOMAIN build
          \/ \E k \in 1..Len(build.files) : "name" \notin DOMAIN build.files[k]
       THEN raise("KeyError") /\ UNCHANGED vmdk_files
       ELSE /\ vmdk_files' = get_vmdk_files(build.files)
            /\ goto("pick")
    /\ UNCHANGED <<fs, manifest, runs, data, build, i, vmdk, calls, effects, prev>>

\* Line 58: vmdk_files = get_vmdk_files(build['files']).  An empty list
\* makes the loop of stream_optimize_vmdk_files (line 61) end at once.
GetVmdkFiles ==
    /\ pc = "files"
    /\ IF "files" \notin DOMAIN build
          \/ \E k \in 1..Len(build.files) : "name" \notin DOMAIN build.files[k]
       THEN raise("KeyError") /\ UNCHANGED vmdk_files
       ELSE /\ vmdk_files' = get_vmdk_files(build.files)
            /\ goto(IF Len(vmdk_files') = 0 THEN "pick" ELSE "convert")
    /\ UNCHANGED <<fs, manifest, runs, data, build, i, vmdk, calls, effects, prev>>

\* Lines 140-155: one turn of the loop of stream_optimize_vmdk_files, on
\* entry i of the list: delete what is at the destination, run the tool and
\* wait for it, then record the destination and its size on the entry.
StreamOptimize ==
    /\ pc = "convert"
    /\ LET k       == vmdk_files[i]
           infile  == build.files[k].name
           outfile == outfile_of(infile)
           existed == outfile \in DOMAIN fs
           cleared == remove_if_file(fs, outfile)
       IN  \E r \in vdiskmanager(cleared, infile, outfile) :
             /\ fs' = r.fs
             /\ calls' = Append(calls, [entry |-> k, infile |-> infile, outfile |-> outfile,
                                        existed |-> outfile \in DOMAIN cleared,
                                        rc |-> r.rc,
                                        wrote |-> IF outfile \in DOMAIN r.fs
                                                  THEN r.fs[outfile] ELSE ""])
             /\ effects' = effects
                    \o (IF existed THEN <<Removed(outfile)>> ELSE <<>>)
                    \o (IF outfile \in DOMAIN r.fs THEN <<Wrote(outfile)>> ELSE <<>>)
             /\ IF ~check_call(r.rc)
                THEN raise("CalledProcessError") /\ UNCHANGED <<build, i>>
                ELSE IF outfile \notin DOMAIN r.fs
                     THEN \* os.path.getsize(outfile) raises
                          /\ build' = [build EXCEPT !.files[k] = Put(@, "stream_name", outfile)]
                          /\ raise("FileNotFoundError")
                          /\ UNCHANGED i
                     ELSE /\ build' = [build EXCEPT !.files[k] =
                                 Put(Put(@, "stream_name", outfile),
                                     "stream_size", Len(r.fs[outfile]))]
                          /\ i' = i + 1
                          /\ goto(IF i' > Len(vmdk_files) THEN "pick" ELSE "convert")
    /\ UNCHANGED <<manifest, runs, data, vmdk_files, vmdk, prev>>

\* A main() that returns when there is no disk: `if not vmdk_files: return`.
PickVmdk_return_if_empty ==
    /\ pc = "pick"
    /\ IF Len(vmdk_files) = 0
       THEN pc' = "done" /\ exit_code' = 0 /\ error' = "" /\ UNCHANGED vmdk
       ELSE vmdk' = vmdk_files[1] /\ goto("ovf")
    /\ UNCHANGED <<fs, manifest, runs, data, build, vmdk_files, i, calls, effects, prev>>

\* vmdk = vmdk_files[-1]: the last disk in the place of the first.
PickVmdk_last ==
    /\ pc = "pick"
    /\ IF Len(vmdk_files) = 0
       THEN raise("IndexError") /\ UNCHANGED vmdk
       ELSE vmdk' = vmdk_files[Len(vmdk_files)] /\ goto("ovf")
    /\ UNCHANGED <<fs, manifest, runs, data, build, vmdk_files, i, calls, effects, prev>>

\* Line 64: vmdk = vmdk_files[0]
PickVmdk ==
    /\ pc = "pick"
    /\ IF Len(vmdk_files) = 0
       THEN raise("IndexError") /\ UNCHANGED vmdk
       ELSE vmdk' = vmdk_files[1] /\ goto("ovf")
    /\ UNCHANGED <<fs, manifest, runs, data, build, vmdk_files, i, calls, effects, prev>>

\* A main() that opens the descriptor for writing before it reads the keys:
\* a missing key leaves the descriptor empty.
CreateOvf_open_first ==
    /\ pc = "ovf"
    /\ effects' = Append(effects, Wrote(ovf_name(build)))
    /\ IF ~ovf_data_ok(build, build.files[vmdk])
       THEN fs' = Put(fs, ovf_name(build), "") /\ raise("KeyError")
       ELSE /\ fs' = Put(fs, ovf_name(build),
                         substitute(_OVF_TEMPLATE, ovf_data(build, build.files[vmdk])))
            /\ goto("mf")
    /\ UNCHANGED <<manifest, runs, data, build, vmdk_files, i, vmdk, calls, prev>>

\* Lines 66-83 and create_ovf: the dict is built first (a missing key raises
\* before create_ovf is entered), then the file is opened for writing, which
\* empties it, and the rendered template is written.
CreateOvf ==
    /\ pc = "ovf"
    /\ IF ~ovf_data_ok(build, build.files[vmdk])
       THEN raise("KeyError") /\ UNCHANGED <<fs, effects>>
       ELSE \/ raise("OSError") /\ UNCHANGED <<fs, effects>>
            \/ /\ effects' = Append(effects, Wrote(ovf_name(build)))
               /\ IF placeholders(_OVF_TEMPLATE)
                        \subseteq DOMAIN ovf_data(build, build.files[vmdk])
                  THEN /\ fs' = Put(fs, ovf_name(build),
                                    substitute(_OVF_TEMPLATE,
                                               ovf_data(build, build.files[vmdk])))
                       /\ goto("mf")
                  ELSE /\ fs' = Put(fs, ovf_name(build), "")
                       /\ raise("KeyError")
    /\ UNCHANGED <<manifest, runs, data, build, vmdk_files, i, vmdk, calls, prev>>

\* A create_ova_manifest that opens the file with mode 'a': the lines are
\* added after what the file held.
CreateOvaManifest_append ==
    /\ pc = "mf"
    /\ \/ raise("OSError") /\ UNCHANGED <<fs, effects>>
       \/ /\ fs' = Put(fs, ova_manifest_name(build),
                       (IF ova_manifest_name(build) \in DOMAIN fs
                        THEN fs[ova_manifest_name(build)] ELSE "")
                       \o manifest_lines(fs, <<ovf_name(build),
                                               build.files[vmdk].stream_name>>))
          /\ effects' = Append(effects, Wrote(ova_manifest_name(build)))
          /\ goto("ova")
    /\ UNCHANGED <<manifest, runs, data, build, vmdk_files, i, vmdk, calls, prev>>

\* Lines 85-87 and create_ova_manifest.
CreateOvaManifest ==
    /\ pc = "mf"
    /\ \/ raise("OSError") /\ UNCHANGED <<fs, effects>>
       \/ /\ fs' = Put(fs, ova_manifest_name(build),
                       manifest_lines(fs, <<ovf_name(build),
                                            build.files[vmdk].stream_name>>))
          /\ effects' = Append(effects, Wrote(ova_manifest_name(build)))
          /\ goto("ova")
    /\ UNCHANGED <<manifest, runs, data, build, vmdk_files, i, vmdk, calls, prev>>

\* Lines 89-91 and 105-110 of create_ova: the archive is opened for writing,
\* every member is added, the tar stream and then the file are closed.
CreateOva ==
    /\ pc = "ova"
    /\ \/ raise("OSError") /\ UNCHANGED <<fs, effects>>
       \/ /\ fs' = Put(fs, ova_name(build),
                       tar_close(tar_add_all("", fs,
                                             ova_members(build, build.files[vmdk]))))
          /\ effects' = Append(effects, Wrote(ova_name(build)))
          /\ goto("sum")
    /\ UNCHANGED <<manifest, runs, data, build, vmdk_files, i, vmdk, calls, prev>>

\* Lines 112-115 of create_ova: the checksum file, then main() returns.
CreateOvaChecksum ==
    /\ pc = "sum"
    /\ \/ raise("OSError") /\ UNCHANGED <<fs, effects>>
       \/ /\ fs' = Put(fs, chksum_name(ova_name(build)), ova_checksum(fs, ova_name(build)))
          /\ effects' = Append(effects, Wrote(chksum_name(ova_name(build))))
          /\ pc' = "done"
          /\ exit_code' = 0
          /\ error' = ""
    /\ UNCHANGED <<manifest, runs, data, build, vmdk_files, i, vmdk, calls, prev>>

Next ==
    \/ \E m \in Manifests : Start(m)
    \/ LoadManifest
    \/ GetFirstBuild
    \/ GetVmdkFiles
    \/ StreamOptimize
    \/ PickVmdk
    \/ CreateOvf
    \/ CreateOvaManifest
    \/ CreateOva
    \/ CreateOvaChecksum

Spec == Init /\ [][Next]_vars

(***************************************************************************)
(* What the properties below read off a state.                             *)
(***************************************************************************)
\* Whether sub occurs in s.
contains(s, sub) == find(s, sub) > 0

\* The hash of the whole of `bytes`, fed at once.
digest_of(bytes) == hexdigest(update(sha256_new, bytes))

\* The lines of a checksum manifest, read back: each 'SHA256(<name>)= <hex>'
\* line as [name, digest].
RECURSIVE mf_entries(_)
mf_entries(text) ==
    IF Len(text) = 0 THEN <<>>
    ELSE LET eol  == find(text, "\n")
             line == SubSeq(text, 1, eol - 1)
             sep  == find(line, ")= ")
         IN  <<[name |-> SubSeq(line, 8, sep - 1), digest |-> SubSeq(line, sep + 3, Len(line))]>>
                 \o mf_entries(SubSeq(text, eol + 1, Len(text)))

\* int(s) for a string of decimal digits.
RECURSIVE int(_)
int(s) ==
    IF Len(s) = 0 THEN 0
    ELSE 10 * int(SubSeq(s, 1, Len(s) - 1)) + (Ord(CharAt(s, Len(s))) - 48)

\* Reading an archive back: its members, in order, as [name, bytes] records.
\* Reading stops at the end-of-archive marker or where the stream ends.
RECURSIVE tar_members(_)
tar_members(archive) ==
    IF Len(archive) = 0 \/ CharAt(archive, 1) = "\t" THEN <<>>
    ELSE LET p    == find(archive, "\t")
             rest == SubSeq(archive, p + 1, Len(archive))
             q    == find(rest, "\t")
             size == int(SubSeq(rest, 1, q - 1))
         IN  <<[name |-> SubSeq(archive, 1, p - 1), bytes |-> SubSeq(rest, q + 1, q + size)]>>
                 \o tar_members(SubSeq(rest, q + size + 1, Len(rest)))

\* Whether the archive ends with the end-of-archive marker right after its
\* last member.
RECURSIVE tar_complete(_)
tar_complete(archive) ==
    IF Len(archive) = 0 THEN FALSE
    ELSE IF CharAt(archive, 1) = "\t" THEN Len(archive) = 1
    ELSE LET p    == find(archive, "\t")
             rest == SubSeq(archive, p + 1, Len(archive))
             q    == find(rest, "\t")
             size == int(SubSeq(rest, 1, q - 1))
         IN  tar_complete(SubSeq(rest, q + size + 1, Len(rest)))

\* The names of the members of an archive, in order.
member_names(archive) ==
    [k \in 1..Len(tar_members(archive)) |-> tar_members(archive)[k].name]

\* The manifest the run was started on has a first build with a files list.
HasFirstBuild ==
    /\ manifest.kind = "json"
    /\ "builds" \in DOMAIN manifest.data
    /\ Len(manifest.data.builds) > 0

\* The .vmdk entries of the first build of the manifest, as indices.
ManifestVmdks ==
    {k \in 1..Len(manifest.data.builds[1].files) :
        endswith(manifest.data.builds[1].files[k].name, ".vmdk")}

Succeeded == pc = "done"

(***************************************************************************)
(* The properties.                                                         *)
(***************************************************************************)
\* C1: after a successful run on a manifest whose first build has one .vmdk
\* file, <name>.ova is a complete archive with exactly three members, in this
\* order: <name>.ovf, <name>.mf, the converted disk (stream_name).
C1_ArchiveMembers ==
    (Succeeded /\ Cardinality(ManifestVmdks) = 1) =>
        /\ tar_complete(fs[build.name \o ".ova"])
        /\ member_names(fs[build.name \o ".ova"])
               = << build.name \o ".ovf", build.name \o ".mf",
                    build.files[vmdk_files[1]].stream_name >>

C1_Witness ==
    /\ Succeeded
    /\ Cardinality(ManifestVmdks) = 1
    /\ Len(manifest.data.builds[1].files) = 2

\* C2: once <name>.mf is written and until the run ends, every line of it
\* names a file whose bytes on disk hash to the digest on the line; after a
\* successful run the member of that name in <name>.ova holds the same bytes.
C2_ManifestDigests ==
    (pc \in {"ova", "sum", "done"}) =>
        LET entries == mf_entries(fs[build.name \o ".mf"])
            members == tar_members(fs[build.name \o ".ova"])
        IN  /\ Len(entries) > 0
            /\ \A k \in 1..Len(entries) :
                 /\ entries[k].name \in DOMAIN fs
                 /\ entries[k].digest = digest_of(fs[entries[k].name])
                 /\ Succeeded =>
                      /\ \E j \in 1..Len(members) : members[j].name = entries[k].name
                      /\ \A j \in 1..Len(members) :
                           members[j].name = entries[k].name =>
                               /\ members[j].bytes = fs[entries[k].name]
                               /\ entries[k].digest = digest_of(members[j].bytes)

C2_Witness ==
    /\ Succeeded
    /\ Len(mf_entries(fs[build.name \o ".mf"])) = 2
    /\ runs = 2
    /\ prev.done
    /\ prev.mf # fs[build.name \o ".mf"]

\* C3: after a successful run, <name>.ova.sha256 holds the hash of the whole
\* of <name>.ova as it is on disk, and that file is a closed archive.
C3_SidecarChecksum ==
    Succeeded =>
        /\ fs[build.name \o ".ova.sha256"] = digest_of(fs[build.name \o ".ova"])
        /\ tar_complete(fs[build.name \o ".ova"])

C3_Witness ==
    /\ Succeeded
    /\ effects[Len(effects)] = Wrote(build.name \o ".ova.sha256")
    /\ Len(fs[build.name \o ".ova"]) > 0

\* The metadata keys that feed a placeholder and that the first build of the
\* manifest lacks; the disk entry is the first .vmdk entry.
MissingKeys ==
    LET b == manifest.data.builds[1]
    IN  (BuildKeys \ DOMAIN b)
        \cup (IF "custom_data" \in DOMAIN b
              THEN DOMAIN CustomData \ DOMAIN b.custom_data ELSE {})
        \cup (IF /\ "files" \in DOMAIN b
                 /\ ManifestVmdks # {}
                 /\ "size" \notin DOMAIN
                        b.files[CHOOSE k \in ManifestVmdks : \A j \in ManifestVmdks : k <= j]
              THEN {"size"} ELSE {})

\* The keys main() reads before it converts the disks (lines 53-55).
EarlyKeys == {"name", "custom_data", "kubernetes_semver"}

\* The names of the four files main() writes itself.
IsOutputName(path) ==
    \/ endswith(path, ".ovf")
    \/ endswith(path, ".mf")
    \/ endswith(path, ".ova")
    \/ endswith(path, ".ova.sha256")

\* C4, as claimed: if a metadata key that feeds a placeholder is missing, the
\* run writes and removes nothing at all, the converted disk included.
C4_NothingWritten ==
    (HasFirstBuild /\ MissingKeys # {}) => (effects = <<>> /\ pc # "done")

\* C4, amended: if a metadata key that feeds a placeholder is missing, the
\* run never writes <name>.ovf, <name>.mf, <name>.ova or <name>.ova.sha256
\* and never succeeds; all it removes or writes are destinations of the
\* conversion, and when the missing key is name, custom_data or
\* kubernetes_semver the converter is not invoked and nothing is written.
C4_DescriptorNotWritten ==
    (HasFirstBuild /\ MissingKeys # {}) =>
        /\ pc \notin {"mf", "ova", "sum", "done"}
        /\ \A k \in 1..Len(effects) :
             /\ ~IsOutputName(effects[k].path)
             /\ \E c \in 1..Len(calls) : effects[k].path = calls[c].outfile
        /\ (MissingKeys \cap EarlyKeys # {}) => (effects = <<>> /\ calls = <<>>)

C4_Witness ==
    /\ HasFirstBuild
    /\ MissingKeys = {"artifact_id"}
    /\ pc = "failed"
    /\ error = "KeyError"
    /\ effects = <<Removed("ubuntu.ova.vmdk"), Wrote("ubuntu.ova.vmdk")>>

\* C5: the tool is never invoked on a destination that exists, and the file
\* a successful conversion leaves at a destination is what the tool wrote in
\* this run, for as long as no later conversion has the same destination.
C5_DestinationCleared ==
    \A k \in 1..Len(calls) :
        /\ ~calls[k].existed
        /\ (/\ calls[k].rc = 0
            /\ \A j \in (k + 1)..Len(calls) : calls[j].outfile # calls[k].outfile)
           => /\ calls[k].outfile \in DOMAIN fs
              /\ calls[k].wrote \in StreamOutputs
              /\ fs[calls[k].outfile] = calls[k].wrote

C5_Witness ==
    /\ Succeeded
    /\ runs = MaxRuns
    /\ prev.done
    /\ prev.builds = manifest.data.builds
    /\ effects[1] = Removed(calls[1].outfile)
    /\ prev.calls[1].wrote # calls[1].wrote
    /\ Len(prev.calls[1].wrote) > Len(calls[1].wrote)

\* C6: a non-zero exit of the tool is the last thing the run does: the call is
\* the last one, the run has failed with CalledProcessError and status 1, the
\* entry it was converting and the entries after it have no stream_name and
\* no stream_size, and none of the four output files has been written.
C6_ConversionFailureAborts ==
    \A k \in 1..Len(calls) :
        calls[k].rc # 0 =>
            /\ k = Len(calls)
            /\ pc = "failed"
            /\ error = "CalledProcessError"
            /\ exit_code = 1
            /\ vmdk_files[i] = calls[k].entry
            /\ \A j \in i..Len(vmdk_files) :
                 /\ "stream_name" \notin DOMAIN build.files[vmdk_files[j]]
                 /\ "stream_size" \notin DOMAIN build.files[vmdk_files[j]]
            /\ \A e \in 1..Len(effects) :
                 effects[e].path \notin
                     { build.name \o ".ovf", build.name \o ".mf",
                       build.name \o ".ova", build.name \o ".ova.sha256" }

C6_Witness ==
    /\ Len(vmdk_files) = 2
    /\ Len(calls) = 1
    /\ calls[1].rc # 0
    /\ pc = "failed"

\* The manifest is missing, is not JSON, or holds no build entry.
NoBuildEntry(m) ==
    \/ m.kind \in {"missing", "malformed"}
    \/ "builds" \notin DOMAIN m.data
    \/ Len(m.data.builds) = 0

\* C7: in a run on a manifest that is missing, malformed or without a build
\* entry, no step changes a file of the build directory or invokes the
\* converter, and the run gets no further than the load of the first build.
C7_LoaderNoSideEffect ==
    [][NoBuildEntry(manifest') =>
           /\ fs' = fs
           /\ calls' = <<>>
           /\ effects' = <<>>
           /\ pc' \in {"load", "build", "failed"}]_vars

C7_Witness ==
    /\ NoBuildEntry(manifest)
    /\ manifest.kind = "json"
    /\ pc = "failed"
    /\ error = "IndexError"
    /\ prev.done
    /\ "ubuntu.ova" \in DOMAIN fs

\* The paths a run wrote, as its effects say.
WrittenBy(log) == {log[k].path : k \in {j \in 1..Len(log) : log[j].op = "write"}}

\* C8: a failed run has exit status 1 and an exception; the exit status is 0
\* exactly when main() returned, and then every conversion exited with 0 and
\* the four outputs were written last, in order; a failed run does nothing
\* more (the only step after it is a new invocation, which starts from the
\* top and leaves the directory as it is); and the step that fails leaves
\* every file this run wrote before as it was.
C8_FailureAborts ==
    [][/\ (pc' = "failed") => (exit_code' = 1 /\ error' # "")
       /\ (exit_code' = 0) <=> (pc' = "done")
       /\ (pc' = "done") =>
            /\ Len(calls') = Len(vmdk_files')
            /\ Len(calls') > 0
            /\ \A k \in 1..Len(calls') : calls'[k].rc = 0
            /\ Len(effects') >= 5
            /\ SubSeq(effects', Len(effects') - 3, Len(effects'))
                   = << Wrote(build'.name \o ".ovf"), Wrote(build'.name \o ".mf"),
                        Wrote(build'.name \o ".ova"), Wrote(build'.name \o ".ova.sha256") >>
       /\ (pc = "failed") =>
            /\ pc' = "load"
            /\ runs' = runs + 1
            /\ fs' = fs
            /\ calls' = <<>>
            /\ effects' = <<>>
       /\ (pc # "failed" /\ pc' = "failed") =>
            /\ Len(calls') <= Len(calls) + 1
            /\ \A p \in WrittenBy(effects) \cap DOMAIN fs :
                 p \in DOMAIN fs' /\ fs'[p] = fs[p]
      ]_vars

C8_Witness ==
    /\ pc = "failed"
    /\ error = "OSError"
    /\ exit_code = 1
    /\ effects[Len(effects)] = Wrote(build.name \o ".mf")
    /\ {build.name \o ".ovf", build.name \o ".mf", "ubuntu.ova.vmdk"} \subseteq DOMAIN fs
    /\ build.name \o ".ova" \notin DOMAIN fs

\* C9: after a successful run whose build is named N and has the single file
\* N.vmdk, the directory holds N.ovf, N.mf, N.ova, N.ova.sha256 and
\* N.ova.vmdk, and N.ovf holds 'Kubernetes ' followed by the manifest's
\* kubernetes_semver.
C9_EndToEnd ==
    (/\ Succeeded
     /\ Len(manifest.data.builds[1].files) = 1
     /\ manifest.data.builds[1].files[1].name = manifest.data.builds[1].name \o ".vmdk")
    => LET N == manifest.data.builds[1].name
       IN  /\ {N \o ".ovf", N \o ".mf", N \o ".ova", N \o ".ova.sha256", N \o ".ova.vmdk"}
                  \subseteq DOMAIN fs
           /\ contains(fs[N \o ".ovf"],
                       "Kubernetes " \o manifest.data.builds[1].custom_data.kubernetes_semver)

C9_Witness ==
    /\ Succeeded
    /\ manifest.data.builds[1].name = "ubuntu"
    /\ Len(manifest.data.builds[1].files) = 1
    /\ manifest.data.builds[1].files[1].name = "ubuntu.vmdk"
    /\ manifest.data.builds[1].custom_data.kubernetes_semver = "1.20.4"
    /\ {"ubuntu.ovf", "ubuntu.mf", "ubuntu.ova", "ubuntu.ova.sha256", "ubuntu.ova.vmdk"}
           \subseteq DOMAIN fs
    /\ contains(fs["ubuntu.ovf"], "Kubernetes 1.20.4")

\* C10: a run on a manifest whose first build is the first build of an
\* earlier successful run invokes the converter on the same files, with the
\* same destinations, whatever the later builds are; when it succeeds it
\* has made as many invocations and written the same paths, and if the tool
\* wrote the same bytes the descriptor and the checksum manifest are the same.
C10_OnlyFirstBuild ==
    (prev.done /\ HasFirstBuild /\ prev.builds[1] = manifest.data.builds[1]) =>
        /\ Len(calls) <= Len(prev.calls)
        /\ \A k \in 1..Len(calls) :
             /\ calls[k].infile = prev.calls[k].infile
             /\ calls[k].outfile = prev.calls[k].outfile
        /\ Succeeded =>
             /\ Len(calls) = Len(prev.calls)
             /\ WrittenBy(effects) = prev.written
             /\ (\A k \in 1..Len(calls) : calls[k].wrote = prev.calls[k].wrote)
                    => /\ fs[build.name \o ".ovf"] = prev.ovf
                       /\ fs[build.name \o ".mf"] = prev.mf

C10_Witness ==
    /\ Succeeded
    /\ prev.done
    /\ prev.builds[1] = manifest.data.builds[1]
    /\ Len(prev.builds) = 2
    /\ Len(manifest.data.builds) = 2
    /\ prev.builds[2] # manifest.data.builds[2]
    /\ calls[1].wrote = prev.calls[1].wrote

\* The destinations of the conversions of a run on the manifest: the name of
\* each .vmdk entry of its first build with the first '.vmdk' replaced.
ConvertedDisks(m) ==
    {outfile_of(m.data.builds[1].files[k].name) :
        k \in {j \in 1..Len(m.data.builds[1].files) :
                  endswith(m.data.builds[1].files[j].name, ".vmdk")}}

\* The four files main() writes itself, for a build named N.
OutputsOf(N) == {N \o ".ovf", N \o ".mf", N \o ".ova", N \o ".ova.sha256"}

\* Whether a step created, changed or removed the file at path p.
Touched(p) ==
    \/ (p \in DOMAIN fs) # (p \in DOMAIN fs')
    \/ (p \in DOMAIN fs /\ p \in DOMAIN fs' /\ fs[p] # fs'[p])

\* C11, as claimed: of the files a successful run wrote, the only ones in the
\* directory when it ends are <name>.ova, <name>.ova.sha256 and the converted
\* disks.
C11_OnlyArchiveKept ==
    Succeeded =>
        \A p \in WrittenBy(effects) \cap DOMAIN fs :
            p \in {build.name \o ".ova", build.name \o ".ova.sha256"}
                      \cup ConvertedDisks(manifest)

\* C11, amended: no step of a run creates, changes or removes a file other
\* than <name>.ovf, <name>.mf, <name>.ova, <name>.ova.sha256 and the converted
\* disk of each .vmdk entry of the first build, and when the run ends with
\* success every one of those files is in the directory.
C11_OutputsKept ==
    [][/\ \A p \in DOMAIN fs \cup DOMAIN fs' :
            Touched(p) => p \in OutputsOf(build'.name) \cup ConvertedDisks(manifest')
       /\ (pc' = "done") =>
            OutputsOf(build'.name) \cup ConvertedDisks(manifest') \subseteq DOMAIN fs'
      ]_vars

C11_Witness ==
    /\ Succeeded
    /\ runs = 1
    /\ Cardinality(ConvertedDisks(manifest)) = 2
    /\ {"ubuntu.ovf", "ubuntu.mf", "ubuntu.ova", "ubuntu.ova.sha256",
        "ubuntu.ova.vmdk", "ubuntu-1.ova.vmdk"} \subseteq DOMAIN fs
    /\ fs["ubuntu.vmx"] = SourceFiles["ubuntu.vmx"]

\* The place of each step in main(), top to bottom.
StepOf(p) ==
    CASE p = "load" -> 1 [] p = "build" -> 2 [] p = "files" -> 3 [] p = "convert" -> 4
      [] p = "pick" -> 5 [] p = "ovf" -> 6 [] p = "mf" -> 7 [] p = "ova" -> 8
      [] p = "sum" -> 9 [] p = "done" -> 10 [] OTHER -> 0

\* C12: within a run the steps follow one another in the order manifest
\* load, first build, disk list, conversions, pick, descriptor, checksum
\* manifest, archive, sidecar, and a step never comes back: a step goes to the
\* next step or fails, the conversions alone repeat, once per entry of the
\* list and in list order, one invocation of the tool per step.  A file is
\* touched only by its own step: a destination of a conversion by the
\* conversions, each of the four outputs by the step that writes it.  The
\* checksum manifest hashes the whole descriptor and disk, and the archive
\* packs the whole of its three members, as the steps before left them.
C12_StepOrder ==
    [][/\ (pc \in {"idle", "done", "failed"}) => (pc' = "load")
       /\ (StepOf(pc) > 0 /\ StepOf(pc) < 10) =>
            \/ pc' = "failed"
            \/ StepOf(pc') = StepOf(pc) + 1 /\ pc # "files"
            \/ pc = "files" /\ pc' = "convert" /\ Len(vmdk_files') > 0
            \/ pc = "files" /\ pc' = "pick" /\ Len(vmdk_files') = 0
            \/ pc = "convert" /\ pc' = "convert" /\ i' = i + 1 /\ i' <= Len(vmdk_files)
       /\ (pc = "convert" /\ pc' = "pick") => (i' = Len(vmdk_files) + 1)
       /\ IF pc = "convert"
          THEN /\ Len(calls') = Len(calls) + 1
               /\ SubSeq(calls', 1, Len(calls)) = calls
               /\ calls'[Len(calls')].entry = vmdk_files[Len(calls')]
               /\ (pc' # "failed") => (Len(calls') = i' - 1)
          ELSE calls' = calls \/ (pc' = "load" /\ calls' = <<>>)
       /\ (pc' = "ovf") => (Len(calls') = Len(vmdk_files') /\ vmdk' = vmdk_files'[1])
       /\ \A p \in DOMAIN fs \cup DOMAIN fs' :
            Touched(p) =>
                \/ pc = "convert" /\ p = calls'[Len(calls')].outfile
                \/ pc = "ovf" /\ p = build.name \o ".ovf"
                \/ pc = "mf"  /\ p = build.name \o ".mf"
                \/ pc = "ova" /\ p = build.name \o ".ova"
                \/ pc = "sum" /\ p = build.name \o ".ova.sha256"
       /\ (pc = "mf" /\ pc' = "ova") =>
            LET entries == mf_entries(fs'[build.name \o ".mf"])
            IN  /\ entries[1].digest = digest_of(fs[build.name \o ".ovf"])
                /\ entries[2].digest = digest_of(fs[build.files[vmdk].stream_name])
       /\ (pc = "ova" /\ pc' = "sum") =>
            LET members == tar_members(fs'[build.name \o ".ova"])
            IN  /\ members[1].bytes = fs[build.name \o ".ovf"]
                /\ members[2].bytes = fs[build.name \o ".mf"]
                /\ members[3].bytes = fs[build.files[vmdk].stream_name]
      ]_vars

C12_Witness ==
    /\ Succeeded
    /\ Len(calls) = 2
    /\ calls[1].infile = "ubuntu-1.vmdk"
    /\ calls[2].infile = "ubuntu.vmdk"
    /\ effects = << Wrote("ubuntu-1.ova.vmdk"), Wrote("ubuntu.ova.vmdk"), Wrote("ubuntu.ovf"),
                    Wrote("ubuntu.mf"), Wrote("ubuntu.ova"), Wrote("ubuntu.ova.sha256") >>

\* C13, as claimed: when the first build lists several .vmdk files, the
\* converter is invoked for the first one only, and the only destination
\* removed or written is the first one's.
C13_OnlyFirstConverted ==
    (Len(vmdk_files) >= 2) =>
        /\ \A k \in 1..Len(calls) : calls[k].entry = vmdk_files[1]
        /\ \A e \in 1..Len(effects) :
             endswith(effects[e].path, ".vmdk") =>
                 effects[e].path = outfile_of(build.files[vmdk_files[1]].name)

\* C13, amended: when the first build lists several .vmdk files, the
\* converter is invoked for each of them, in list order, and once the
\* conversions are over every entry has its converted disk in the directory;
\* after a successful run the checksum manifest and the archive name the
\* converted disk of the first entry and of no later entry, and the size in
\* the descriptor's File element is the size of the first entry's converted
\* disk.
C13_FirstDiskPackaged ==
    (Len(vmdk_files) >= 2) =>
        /\ \A k \in 1..Len(calls) :
             /\ calls[k].entry = vmdk_files[k]
             /\ calls[k].infile = manifest.data.builds[1].files[vmdk_files[k]].name
        /\ (pc \in {"pick", "ovf", "mf", "ova", "sum", "done"}) =>
             /\ Len(calls) = Len(vmdk_files)
             /\ \A k \in 1..Len(calls) : calls[k].rc = 0 /\ calls[k].outfile \in DOMAIN fs
        /\ Succeeded =>
             LET N     == build.name
                 names == [k \in 1..Len(mf_entries(fs[N \o ".mf"])) |->
                              mf_entries(fs[N \o ".mf"])[k].name]
             IN  /\ names = <<N \o ".ovf", calls[1].outfile>>
                 /\ member_names(fs[N \o ".ova"]) = <<N \o ".ovf", N \o ".mf", calls[1].outfile>>
                 /\ \A k \in 2..Len(calls) : calls[k].outfile # calls[1].outfile
                 /\ contains(fs[N \o ".ovf"],
                             "ovf:size=\"" \o str(Len(fs[calls[1].outfile])) \o "\"")

C13_Witness ==
    /\ Succeeded
    /\ Len(vmdk_files) = 2
    /\ calls[1].outfile = "ubuntu.ova.vmdk"
    /\ calls[2].outfile = "ubuntu-1.ova.vmdk"
    /\ Len(fs["ubuntu.ova.vmdk"]) # Len(fs["ubuntu-1.ova.vmdk"])
    /\ "ubuntu-1.ova.vmdk" \in WrittenBy(effects)

\* C14: whenever main() has built the dict for create_ovf, the dict has a key
\* for every ${...} placeholder of _OVF_TEMPLATE; so a run that has opened
\* <name>.ovf for writing has not failed with KeyError, and the file holds the
\* rendered template: it is not empty and no placeholder is left in it.
C14_EveryPlaceholderSupplied ==
    /\ (pc = "ovf" /\ ovf_data_ok(build, build.files[vmdk])) =>
          placeholders(_OVF_TEMPLATE) \subseteq DOMAIN ovf_data(build, build.files[vmdk])
    /\ ("name" \in DOMAIN build /\ build.name \o ".ovf" \in WrittenBy(effects)) =>
          /\ error # "KeyError"
          /\ Len(fs[build.name \o ".ovf"]) > 0
          /\ ~contains(fs[build.name \o ".ovf"], "${")

C14_Witness ==
    /\ pc = "mf"
    /\ runs = 1
    /\ Cardinality(placeholders(_OVF_TEMPLATE)) = 14
    /\ effects[Len(effects)] = Wrote("ubuntu.ovf")
    /\ contains(fs["ubuntu.ovf"], "ovf:value=\"http://iso\" ovf:key=\"ISO_URL\"")

\* Whether text is exactly the line 'SHA256(<path>)= <hexdigest>' and its
\* newline, for some hexdigest.
IsDigestLine(text, path) ==
    /\ Len(text) = Len("SHA256(") + Len(path) + Len(")= ") + 4 + 1
    /\ SubSeq(text, 1, Len(path) + 10) = "SHA256(" \o path \o ")= "
    /\ \A k \in (Len(path) + 11)..(Len(path) + 14) :
         contains("0123456789abcdef", CharAt(text, k))
    /\ CharAt(text, Len(text)) = "\n"

\* C15: create_ova_manifest writes one 'SHA256(<path>)= <hexdigest>' line per
\* path it is given, in the order given (tried, when main() is about to call
\* it, on every list of at most MaxPaths paths among the descriptor and the
\* converted disk, repeats included); the <name>.mf that main() leaves is
\* exactly two such lines, the descriptor's and then the converted disk's,
\* and none of them names <name>.mf.
C15_ManifestLines ==
    /\ (pc = "mf") =>
          LET ovf  == build.name \o ".ovf"
              disk == build.files[vmdk].stream_name
          IN  \A d \in {[p \in {ovf, disk} |-> digest_of(fs[p])]} :
              \A n \in 0..MaxPaths :
                \A paths \in [1..n -> {ovf, disk}] :
                  \A entries \in {mf_entries(manifest_lines(fs, paths))} :
                      /\ Len(entries) = n
                      /\ \A k \in 1..n :
                           /\ entries[k].name = paths[k]
                           /\ entries[k].digest = d[paths[k]]
                           /\ Len(entries[k].digest) = 4
    /\ (pc \in {"ova", "sum", "done"}) =>
          LET text == fs[build.name \o ".mf"]
              ovf  == build.name \o ".ovf"
              disk == build.files[vmdk_files[1]].stream_name
          IN  /\ Len(text) = Len(ovf) + Len(disk) + 30
              /\ IsDigestLine(SubSeq(text, 1, Len(ovf) + 15), ovf)
              /\ IsDigestLine(SubSeq(text, Len(ovf) + 16, Len(text)), disk)
              /\ ~contains(text, "(" \o build.name \o ".mf)")

C15_Witness ==
    /\ pc = "ova"
    /\ effects[Len(effects)] = Wrote("ubuntu.mf")
    /\ SubSeq(fs["ubuntu.mf"], 1, 20) = "SHA256(ubuntu.ovf)= "
    /\ find(fs["ubuntu.mf"], "\nSHA256(ubuntu.ova.vmdk)= ") = 25

\* The names of the entries of the first build of the manifest that do not
\* end in '.vmdk'.
OtherFiles ==
    {manifest.data.builds[1].files[k].name :
        k \in (1..Len(manifest.data.builds[1].files)) \ ManifestVmdks}

\* C16: once get_vmdk_files has returned, vmdk_files holds exactly the
\* entries of build['files'] whose name ends in '.vmdk', each once and in the
\* order of the list, as entries of that list; the list is as the manifest
\* gave it (get_vmdk_files changed nothing, and afterwards only the .vmdk
\* entries gain stream_name and stream_size); and no other entry is ever
\* handed to the converter, named in the checksum manifest or added to the
\* archive.
C16_VmdkFilesOnly ==
    (StepOf(pc) >= 4 \/ (pc = "failed" /\ (vmdk_files # <<>> \/ error = "IndexError")
                                       /\ "files" \in DOMAIN build)) =>
        LET files == manifest.data.builds[1].files
        IN  /\ {vmdk_files[k] : k \in 1..Len(vmdk_files)} = ManifestVmdks
            /\ \A k \in 1..(Len(vmdk_files) - 1) : vmdk_files[k] < vmdk_files[k + 1]
            /\ Len(build.files) = Len(files)
            /\ \A k \in 1..Len(files) :
                 /\ build.files[k].name = files[k].name
                 /\ (k \notin ManifestVmdks \/ calls = <<>>) => build.files[k] = files[k]
            /\ \A k \in 1..Len(calls) :
                 /\ endswith(calls[k].infile, ".vmdk")
                 /\ calls[k].infile \notin OtherFiles
            /\ (pc \in {"ova", "sum", "done"}) =>
                 \A k \in 1..Len(mf_entries(fs[build.name \o ".mf"])) :
                     mf_entries(fs[build.name \o ".mf"])[k].name \notin OtherFiles
            /\ Succeeded =>
                 \A k \in 1..Len(member_names(fs[build.name \o ".ova"])) :
                     member_names(fs[build.name \o ".ova"])[k] \notin OtherFiles

C16_Witness ==
    /\ Succeeded
    /\ OtherFiles = {"ubuntu.vmx"}
    /\ vmdk_files = <<2>>
    /\ Len(calls) = 1
    /\ calls[1].infile = "ubuntu.vmdk"
    /\ "stream_name" \in DOMAIN build.files[2]
    /\ build.files[1] = manifest.data.builds[1].files[1]

\* C17: an entry the tool has converted has the destination of its
\* conversion as stream_name and the length of what the tool left there as
\* stream_size, and an entry it has not converted has neither; after a
\* successful run the size in the descriptor's File element is the length
\* of the converted disk in the directory, which is the file whose hash is on
\* the disk line of the checksum manifest and whose bytes are the disk
\* member of the archive.
C17_StreamSize ==
    /\ \A k \in 1..Len(calls) :
         LET f == build.files[calls[k].entry]
         IN  IF calls[k].rc = 0 /\ calls[k].wrote # ""
             THEN /\ f.stream_name = calls[k].outfile
                  /\ f.stream_size = Len(calls[k].wrote)
                  /\ f.stream_size = Len(fs[f.stream_name])
             ELSE "stream_size" \notin DOMAIN f
    /\ \A k \in 1..Len(vmdk_files) :
         (k > Len(calls)) =>
             DOMAIN build.files[vmdk_files[k]] \cap {"stream_name", "stream_size"} = {}
    /\ Succeeded =>
         LET N    == build.name
             disk == tar_members(fs[N \o ".ova"])[3]
             line == mf_entries(fs[N \o ".mf"])[2]
         IN  /\ disk.name = build.files[vmdk].stream_name
             /\ line.name = disk.name
             /\ disk.bytes = fs[disk.name]
             /\ line.digest = digest_of(disk.bytes)
             /\ build.files[vmdk].stream_size = Len(disk.bytes)
             /\ contains(fs[N \o ".ovf"],
                         ".ova.vmdk\" ovf:size=\"" \o str(Len(disk.bytes)) \o "\"/>")

C17_Witness ==
    /\ Succeeded
    /\ build.files[vmdk].size = 20
    /\ build.files[vmdk].stream_size = 11
    /\ Len(fs[build.files[vmdk].stream_name]) = 11
    /\ contains(fs["ubuntu.ovf"], "ovf:size=\"11\"")

\* How many times sub occurs in s.
count(s, sub) ==
    Cardinality({k \in 1..(Len(s) - Len(sub) + 1) : SubSeq(s, k, k + Len(sub) - 1) = sub})

\* C18: a successful run on the manifest of an earlier successful run, in
\* which the tool wrote the same bytes for every disk, leaves the same
\* <name>.ovf and <name>.mf, byte for byte; and a successful run that comes
\* after another one leaves outputs that hold nothing of the earlier run's:
\* the descriptor is one rendering of the template, the checksum manifest
\* has two lines, the archive is complete with three members that are the
\* files of this run, and the checksum file is one digest.
C18_RerunReplaces ==
    (Succeeded /\ prev.done) =>
        LET N == build.name
        IN  /\ (/\ prev.builds = manifest.data.builds
                 /\ \A k \in 1..Len(calls) : calls[k].wrote = prev.calls[k].wrote)
                => /\ fs[N \o ".ovf"] = prev.ovf
                   /\ fs[N \o ".mf"] = prev.mf
            /\ find(fs[N \o ".ovf"], "<File ovf:id=") = 1
            /\ count(fs[N \o ".ovf"], "<File ovf:id=") = 1
            /\ count(fs[N \o ".ovf"], "ovf:key=\"KUBERNETES_SOURCE_TYPE\"/>\n") = 1
            /\ count(fs[N \o ".mf"], "\n") = 2
            /\ Len(fs[N \o ".ova.sha256"]) = 4
            /\ tar_complete(fs[N \o ".ova"])
            /\ Len(tar_members(fs[N \o ".ova"])) = 3
            /\ \A k \in 1..3 :
                 tar_members(fs[N \o ".ova"])[k].bytes
                     = fs[tar_members(fs[N \o ".ova"])[k].name]

C18_Witness ==
    /\ Succeeded
    /\ runs = 2
    /\ prev.done
    /\ prev.builds = manifest.data.builds
    /\ \A k \in 1..Len(calls) : calls[k].wrote = prev.calls[k].wrote
    /\ fs["ubuntu.ovf"] = prev.ovf
    /\ fs["ubuntu.mf"] = prev.mf
    /\ Len(prev.mf) > 0

\* The value of the ovf:href attribute of the File element of a descriptor.
Href(text) ==
    LET from == find(text, "ovf:href=\"") + Len("ovf:href=\"")
        rest == SubSeq(text, from, Len(text))
    IN  SubSeq(rest, 1, find(rest, "\"") - 1)

\* C19: after a successful run, the file the descriptor's File element
\* refers to (its ovf:href) is the disk member of the archive and the file
\* named on the disk line of the checksum manifest.
C19_HrefNamesDisk ==
    Succeeded =>
        /\ Href(fs[build.name \o ".ovf"]) = tar_members(fs[build.name \o ".ova"])[3].name
        /\ Href(fs[build.name \o ".ovf"]) = mf_entries(fs[build.name \o ".mf"])[2].name

\* C20: the path the converter's loop deletes before a conversion is never
\* the source disk of that conversion nor the source disk of another .vmdk
\* entry of the list: no file the run removed is named by a .vmdk entry.
C20_PreDeleteSparesSources ==
    \A e \in 1..Len(effects) :
        effects[e].op = "remove" =>
            \A k \in 1..Len(vmdk_files) : effects[e].path # build.files[vmdk_files[k]].name

\* C21: between invocations, whatever came before, an archive that has a
\* checksum file beside it hashes to what the checksum file holds.
C21_SidecarMatchesArchive ==
    (pc \in {"idle", "done", "failed"}) =>
        \A p \in DOMAIN fs :
            (endswith(p, ".ova") /\ (p \o ".sha256") \in DOMAIN fs) =>
                fs[p \o ".sha256"] = digest_of(fs[p])

\* The first build of the manifest has a files list and no entry of it has a
\* name that ends in '.vmdk'.
NoVmdk(m) ==
    /\ ~NoBuildEntry(m)
    /\ "files" \in DOMAIN m.data.builds[1]
    /\ \A k \in 1..Len(m.data.builds[1].files) :
         ~endswith(m.data.builds[1].files[k].name, ".vmdk")

\* C22: in a run on a manifest whose first build lists no .vmdk file, no
\* step invokes the converter or changes a file of the directory, the run
\* gets no further than the pick of the first disk, where it fails with
\* IndexError and exit status 1; it never ends with success.
C22_NoDiskAborts ==
    [][NoVmdk(manifest') =>
           /\ fs' = fs
           /\ calls' = <<>>
           /\ effects' = <<>>
           /\ pc' \in {"load", "build", "files", "pick", "failed"}
           /\ exit_code' # 0
           /\ (pc' = "failed") => (pc = "pick" /\ exit_code' = 1 /\ error' = "IndexError")
           /\ (pc = "pick") => (pc' = "failed")]_vars

C22_Witness ==
    /\ NoVmdk(manifest)
    /\ Len(manifest.data.builds[1].files) = 1
    /\ pc = "failed"
    /\ error = "IndexError"
    /\ exit_code = 1
    /\ vmdk_files = <<>>
    /\ prev.done
    /\ fs["ubuntu.ovf"] = prev.ovf

\* How many reads the loop of sha256() makes on a file of len bytes read n
\* bytes at a time: one per chunk, and the empty read that ends it.
reads(len, n) == (len + n - 1) \div n + 1

\* The chunks the reads of a file return, in order: n bytes each, the last
\* one what is left.
chunks(bytes, n) ==
    [k \in 1..(reads(Len(bytes), n) - 1) |->
        SubSeq(bytes, (k - 1) * n + 1,
               IF k * n < Len(bytes) THEN k * n ELSE Len(bytes))]

\* Feeding the chunks one after the other, none left out, none twice.
RECURSIVE feed_all(_, _)
feed_all(m, cs) == IF Len(cs) = 0 THEN m ELSE feed_all(update(m, Head(cs)), Tail(cs))

\* C23: the loop of sha256() gives the hash of the whole file: when create_ova
\* is about to hash the archive, on every file made of the first bytes of
\* the archive, from none to MaxData of them, read in chunks of 1 to
\* MaxChunk bytes (empty files, lengths that are multiples of the chunk and
\* lengths that are not), the loop ends in the state that feeding the
\* file's consecutive chunks in order gives, which is the state that
\* feeding the whole file at once gives; and sha256() on the archive, read
\* with the chunk of the program, is the hash of the whole archive.
C23_ChunkedHash ==
    (pc = "sum") =>
        /\ \A len \in 0..MaxData :
             \A bytes \in {SubSeq(fs[build.name \o ".ova"], 1, len)} :
               \A n \in 1..MaxChunk :
                 \A m \in {read_loop(bytes, 1, n, sha256_new)} :
                    /\ Len(bytes) = len
                    /\ m = feed_all(sha256_new, chunks(bytes, n))
                    /\ m = update(sha256_new, bytes)
                    /\ (len = 0) => (m = sha256_new)
        /\ sha256(fs[build.name \o ".ova"]) = digest_of(fs[build.name \o ".ova"])
        /\ reads(Len(fs[build.name \o ".ova"]), BUFSIZE) = 2

C23_Witness ==
    /\ pc = "sum"
    /\ Len(fs["ubuntu.ova"]) > MaxData
    /\ Len(fs["ubuntu.ova"]) < BUFSIZE
    /\ Len(chunks(SubSeq(fs["ubuntu.ova"], 1, MaxData), MaxChunk)) = 2
    /\ Len(chunks(SubSeq(fs["ubuntu.ova"], 1, MaxData - 1), MaxChunk)) = 2
    /\ read_loop(SubSeq(fs["ubuntu.ova"], 1, MaxData), 1, MaxChunk, sha256_new)
           # read_loop(SubSeq(fs["ubuntu.ova"], 1, MaxData - 1), 1, MaxChunk, sha256_new)

====
